---- MODULE Spec2Model ----
(***************************************************************************)
(* avrodisiac: an Avro schema linter.                                      *)
(*                                                                         *)
(* `lint <path>` collects the .avsc files under a path and parses them as  *)
(* one document set; `compat <old> <new> [--mutual]` parses two document   *)
(* sets and checks every schema of the old set against the schema of the   *)
(* same name in the new set.  The model follows src/main.rs statement by   *)
(* statement; the schema parser and the reader/writer resolution, which    *)
(* main.rs delegates to a library, follow sections 4.1-4.3 of the          *)
(* specification.                                                          *)
(***************************************************************************)
EXTENDS Integers, Sequences, FiniteSets, TLC

VARIABLES cmd, path, old, new, mutual, pc, files, old_schemas, new_schemas,
          idx, result, diag, exit_code, stderr

vars == <<cmd, path, old, new, mutual, pc, files, old_schemas, new_schemas,
          idx, result, diag, exit_code, stderr>>

(***************************************************************************)
(* Bounds of the explored inputs.                                          *)
(***************************************************************************)
MaxEntries == 2
MaxOld == 2
MaxNew == 2

(***************************************************************************)
(* Schema documents.  A field type is a primitive type name or the         *)
(* fullname of a named type (a Reference).  Option<Name> is NoName for a   *)
(* schema that has no name (a primitive, array, map or union document).    *)
(***************************************************************************)
NoName == "<None>"
Test == "my.namespace.test"
Nested == "my.namespace.nested"
Extra == "my.namespace.extra"
Prims == {"null", "boolean", "int", "long", "float", "double", "bytes", "string"}

Field(n, t, d) == [name |-> n, type |-> t, default |-> d]
Record(n, fs) == [kind |-> "record", name |-> n, fields |-> fs]
ArrayDoc == [kind |-> "array", name |-> NoName, fields |-> <<>>]
Malformed == [kind |-> "malformed", name |-> NoName, fields |-> <<>>]

(***************************************************************************)
(* File system nodes: a file with its content, or a directory with its     *)
(* entries in the order read_dir enumerates them.  ext is "" for a name    *)
(* without extension (such as .git).                                       *)
(***************************************************************************)
File(stem, ext, readable, content) ==
    [kind |-> "file", stem |-> stem, ext |-> ext, readable |-> readable,
     content |-> content, entries |-> <<>>]
Dir(stem, readable, entries) ==
    [kind |-> "dir", stem |-> stem, ext |-> "", readable |-> readable,
     content |-> Malformed, entries |-> entries]
NoPath == Dir("", TRUE, <<>>)

is_dir(p) == p.kind = "dir"
extension(f) == f.ext

(***************************************************************************)
(* Results: Ok(value), Err(error) or a panic (the process aborts).         *)
(***************************************************************************)
Error(reason, name) == [reason |-> reason, name |-> name]
NoError == Error("none", NoName)
Ok(v) == [status |-> "ok", value |-> v, error |-> NoError]
Err(e) == [status |-> "err", value |-> <<>>, error |-> e]
Panic(m) == [status |-> "panic", value |-> <<>>, error |-> Error(m, NoName)]

RECURSIVE visit_entries(_, _, _)
RECURSIVE visit_dirs(_)
(* The for loop of visit_dirs over the entries i.. of a directory. *)
visit_entries(entries, i, acc) ==
    IF i > Len(entries) THEN Ok(acc)
    ELSE LET p == entries[i] IN
         IF is_dir(p)
         THEN LET sub == visit_dirs(p) IN
              IF sub.status # "ok" THEN sub
              ELSE visit_entries(entries, i + 1, acc \o sub.value)
         ELSE visit_entries(entries, i + 1, Append(acc, p))

(* Variant: visit_dirs without the test for a directory named .git. *)
visit_dirs_into_git(dir) ==
    IF is_dir(dir)
    THEN IF ~dir.readable THEN Err(Error("read_dir", NoName))
         ELSE visit_entries(dir.entries, 1, <<>>)
    ELSE Ok(<<dir>>)

visit_dirs(dir) ==
    IF is_dir(dir)
    THEN IF dir.stem = ".git" THEN Ok(<<>>)
         ELSE IF ~dir.readable THEN Err(Error("read_dir", NoName))
         ELSE visit_entries(dir.entries, 1, <<>>)
    ELSE Ok(<<dir>>)

(***************************************************************************)
(* Schema::parse_list: two passes over the documents in the given order.   *)
(***************************************************************************)
RECURSIVE declare(_, _, _)
(* Pass 1: every document is parsed and its named type declared. *)
declare(docs, i, registry) ==
    IF i > Len(docs) THEN Ok(registry)
    ELSE LET d == docs[i] IN
         IF d.kind = "malformed" THEN Err(Error("MalformedJson", NoName))
         ELSE IF d.name = NoName THEN declare(docs, i + 1, registry)
         ELSE IF d.name \in registry THEN Err(Error("DuplicateName", d.name))
         ELSE declare(docs, i + 1, registry \cup {d.name})

references(d) == {d.fields[k].type : k \in 1..Len(d.fields)} \ Prims

RECURSIVE link(_, _, _)
(* Pass 2: every Reference is resolved against the completed registry. *)
link(docs, i, registry) ==
    IF i > Len(docs) THEN Ok(docs)
    ELSE IF references(docs[i]) \subseteq registry
         THEN link(docs, i + 1, registry)
         ELSE Err(Error("UnresolvedReference", docs[i].name))

parse_list(docs) ==
    LET declared == declare(docs, 1, {}) IN
    IF declared.status # "ok" THEN declared
    ELSE link(docs, 1, declared.value)

(***************************************************************************)
(* parse_schemas: keep the .avsc files, read each one, parse the list.     *)
(***************************************************************************)
avsc(fs) == SelectSeq(fs, LAMBDA f : extension(f) = "avsc")

parse_schemas(fs) ==
    LET kept == avsc(fs) IN
    IF \E k \in 1..Len(kept) : ~kept[k].readable
    THEN Panic("Unable to read file")
    ELSE parse_list([k \in 1..Len(kept) |-> kept[k].content])

(***************************************************************************)
(* SchemaCompatibility: reader/writer resolution.  The outcome is "Ok" or  *)
(* the reason of the first mismatch found.  wset and rset are the resolved *)
(* document sets the writer and the reader schema belong to; a Reference   *)
(* is looked up there, and a pair of named types entered once is not       *)
(* descended into again.                                                   *)
(***************************************************************************)
Promotions ==
    {<<"int", "long">>, <<"int", "float">>, <<"int", "double">>,
     <<"long", "float">>, <<"long", "double">>, <<"float", "double">>,
     <<"string", "bytes">>, <<"bytes", "string">>}

resolve(set, fullname) ==
    set[CHOOSE k \in 1..Len(set) : set[k].name = fullname]

field_named(rec, n) == {k \in 1..Len(rec.fields) : rec.fields[k].name = n}

RECURSIVE match_fields(_, _, _, _, _, _)
RECURSIVE full_match(_, _, _, _, _)
(* Record vs record: the reader's fields k.. against the writer. *)
match_fields(w, r, k, wset, rset, visited) ==
    IF k > Len(r.fields) THEN "Ok"
    ELSE LET rf == r.fields[k]
             pos == field_named(w, rf.name) IN
         IF pos # {}
         THEN LET wf == w.fields[CHOOSE p \in pos : TRUE]
                  m == full_match(wf.type, rf.type, wset, rset, visited) IN
              IF m # "Ok" THEN m
              ELSE match_fields(w, r, k + 1, wset, rset, visited)
         ELSE IF ~rf.default THEN "MissingField"
         ELSE match_fields(w, r, k + 1, wset, rset, visited)

full_match(wt, rt, wset, rset, visited) ==
    IF wt \in Prims /\ rt \in Prims
    THEN IF wt = rt \/ <<wt, rt>> \in Promotions THEN "Ok" ELSE "TypeMismatch"
    ELSE IF wt \in Prims \/ rt \in Prims THEN "TypeMismatch"
    ELSE IF <<rt, wt>> \in visited THEN "Ok"
    ELSE match_fields(resolve(wset, wt), resolve(rset, rt), 1, wset, rset,
                      visited \cup {<<rt, wt>>})

can_read(writers_schema, readers_schema, wset, rset) ==
    match_fields(writers_schema, readers_schema, 1, wset, rset,
                 {<<readers_schema.name, writers_schema.name>>})

mutual_read(writers_schema, readers_schema, wset, rset) ==
    LET first == can_read(writers_schema, readers_schema, wset, rset) IN
    IF first # "Ok" THEN first
    ELSE can_read(readers_schema, writers_schema, rset, wset)

(***************************************************************************)
(* compare_schemas: the body of the loop over old_schemas.                 *)
(***************************************************************************)
Found(j) == [status |-> "some", at |-> j, error |-> NoError]
NotFound == [status |-> "none", at |-> 0, error |-> NoError]
Unwrap(m) == [status |-> "panic", at |-> 0, error |-> Error(m, NoName)]

(* Variant: only the first schema of new_schemas is looked at. *)
find_new_first(schema, news, j) ==
    IF j > Len(news) THEN NotFound
    ELSE IF news[j].name = NoName THEN Unwrap("no name on new schema")
    ELSE IF schema.name = NoName THEN Unwrap("no name on old schema")
    ELSE IF news[j].name = schema.name THEN Found(j)
    ELSE NotFound

RECURSIVE find_new(_, _, _)
(* new_schemas.iter().filter(same name).next(), from position j on. *)
find_new(schema, news, j) ==
    IF j > Len(news) THEN NotFound
    ELSE IF news[j].name = NoName THEN Unwrap("no name on new schema")
    ELSE IF schema.name = NoName THEN Unwrap("no name on old schema")
    ELSE IF news[j].name = schema.name THEN Found(j)
    ELSE find_new(schema, news, j + 1)

(* Variant: the mutual flag is ignored, can_read is always used. *)
check_pair_one_way(schema, new_schema, olds, news, m) ==
    can_read(schema, new_schema, olds, news)

(* Variant: can_read is called with its two arguments exchanged. *)
check_pair_swapped(schema, new_schema, olds, news, m) ==
    IF m THEN mutual_read(schema, new_schema, olds, news)
    ELSE can_read(new_schema, schema, news, olds)

(* The match on (new_schema, mutual). *)
check_pair(schema, new_schema, olds, news, m) ==
    IF m THEN mutual_read(schema, new_schema, olds, news)
    ELSE can_read(schema, new_schema, olds, news)

(* Variant: a schema that has no counterpart in new is skipped. *)
compare_one_keeps_removed(schema, olds, news, m) ==
    LET f == find_new(schema, news, 1) IN
    IF f.status = "panic" THEN Panic(f.error.reason)
    ELSE IF f.status = "none" THEN Ok(<<>>)
    ELSE LET c == check_pair(schema, news[f.at], olds, news, m) IN
         IF c = "Ok" THEN Ok(<<>>) ELSE Err(Error(c, schema.name))

(* Variant: the result of the compatibility check is dropped (no `?`). *)
compare_one_unchecked(schema, olds, news, m) ==
    LET f == find_new(schema, news, 1) IN
    IF f.status = "panic" THEN Panic(f.error.reason)
    ELSE IF f.status = "none"
    THEN Err(Error("SchemaRemoved", schema.name))
    ELSE Ok(<<>>)

(* One iteration: look the schema up in new_schemas, then check the pair. *)
compare_one(schema, olds, news, m) ==
    LET f == find_new(schema, news, 1) IN
    IF f.status = "panic" THEN Panic(f.error.reason)
    ELSE IF f.status = "none"
    THEN Err(Error("SchemaRemoved", schema.name))
    ELSE LET c == check_pair(schema, news[f.at], olds, news, m) IN
         IF c = "Ok" THEN Ok(<<>>) ELSE Err(Error(c, schema.name))

RECURSIVE compare_from(_, _, _, _)
(* The loop from old_schemas[i] on: the first Err or panic ends it. *)
compare_from(i, olds, news, m) ==
    IF i > Len(olds) THEN Ok(<<>>)
    ELSE LET r == compare_one(olds[i], olds, news, m) IN
         IF r.status # "ok" THEN r
         ELSE compare_from(i + 1, olds, news, m)

load(p) ==
    LET v == visit_dirs(p) IN
    IF v.status # "ok" THEN v ELSE parse_schemas(v.value)

validate_schemas(p) ==
    LET s == load(p) IN
    IF s.status # "ok" THEN s ELSE Ok(<<>>)

compare_schemas(o, n, m) ==
    LET os == load(o) IN
    IF os.status # "ok" THEN os
    ELSE LET ns == load(n) IN
         IF ns.status # "ok" THEN ns
         ELSE compare_from(1, os.value, ns.value, m)

(* The exit status of the process. *)
exit_status(r) ==
    IF r.status = "ok" THEN 0 ELSE IF r.status = "err" THEN 1 ELSE 101

(***************************************************************************)
(* The explored inputs.                                                    *)
(***************************************************************************)
T1 == Record(Test, <<Field("myField", "int", FALSE)>>)
T2 == Record(Test, <<Field("myField", "string", FALSE)>>)
TR == Record(Test, <<Field("myField", "int", FALSE),
                     Field("nest", Nested, FALSE)>>)
TRplus == Record(Test, <<Field("myField", "int", FALSE),
                         Field("myOtherField", "int", TRUE),
                         Field("nest", Nested, FALSE)>>)
N1 == Record(Nested, <<Field("myNestedField", "int", FALSE)>>)
N2 == Record(Nested, <<Field("myNestedField", "string", FALSE)>>)
X1 == Record(Extra, <<Field("myField", "int", FALSE)>>)

FieldTypes == {"int", "long", "string"}
FieldOpts(n) ==
    {<<>>} \cup {<<Field(n, t, d)>> : t \in FieldTypes, d \in BOOLEAN}
Records(n) ==
    {Record(n, a \o b) : a \in FieldOpts("myField"),
                         b \in FieldOpts("myOtherField")}

filename(p) == <<p.stem, p.ext>>
(* The listings of at most n entries of E, no file name twice. *)
Listings(E, n) ==
    {es \in UNION {[1..k -> E] : k \in 0..n} :
        \A i, j \in 1..Len(es) : filename(es[i]) = filename(es[j]) => i = j}

OldFiles ==
    {File("test", "avsc", TRUE, T1), File("test_nest", "avsc", TRUE, TR),
     File("nested", "avsc", TRUE, N1), File("ids", "avsc", TRUE, ArrayDoc),
     File("locked", "avsc", FALSE, Malformed)}
NewFiles ==
    {File("test", "avsc", TRUE, T1), File("test2", "avsc", TRUE, T2),
     File("test_nest", "avsc", TRUE, TRplus),
     File("nested", "avsc", TRUE, N1), File("nested2", "avsc", TRUE, N2),
     File("ids", "avsc", TRUE, ArrayDoc), File("bad", "avsc", TRUE, Malformed)}

LintFiles ==
    {File("test", "avsc", TRUE, TR), File("nested", "avsc", TRUE, N1),
     File("bad", "avsc", TRUE, Malformed),
     File("locked", "avsc", FALSE, Malformed),
     File("notes", "txt", TRUE, Malformed),
     File("locked", "txt", FALSE, Malformed)}
SubListings == {<<>>} \cup {<<f>> : f \in LintFiles}
SubDirs ==
    {Dir(n, TRUE, es) : n \in {".git", "sub"}, es \in SubListings}
    \cup {Dir(n, FALSE, <<>>) : n \in {".git", "sub"}}
LintPaths ==
    {Dir("schemas", TRUE, es) :
        es \in Listings(LintFiles \cup SubDirs, MaxEntries)}
    \cup LintFiles \cup SubDirs

InitState ==
    /\ pc = "main"
    /\ files = <<>>
    /\ old_schemas = <<>>
    /\ new_schemas = <<>>
    /\ idx = 0
    /\ result = "none"
    /\ diag = NoError
    /\ exit_code = -1
    /\ stderr = <<>>

InitLint ==
    /\ cmd = "lint"
    /\ path \in LintPaths
    /\ old = NoPath
    /\ new = NoPath
    /\ mutual = FALSE
    /\ InitState

(* compat on two directories of several documents. *)
InitCompatSets ==
    /\ cmd = "compat"
    /\ path = NoPath
    /\ old \in {Dir("old", TRUE, es) : es \in Listings(OldFiles, MaxOld)}
    /\ new \in {Dir("new", TRUE, es) : es \in Listings(NewFiles, MaxNew)}
    /\ mutual \in BOOLEAN
    /\ InitState

(* compat on two directories of one record each. *)
InitCompatPair ==
    /\ cmd = "compat"
    /\ path = NoPath
    /\ old \in {Dir("old", TRUE, <<File("test", "avsc", TRUE, r)>>) :
                   r \in Records(Test)}
    /\ new \in {Dir("new", TRUE, <<File("test", "avsc", TRUE, r)>>) :
                   r \in Records(Test)}
    /\ mutual \in BOOLEAN
    /\ InitState

Init == InitLint \/ InitCompatSets \/ InitCompatPair

(***************************************************************************)
(* The steps of main.                                                      *)
(***************************************************************************)
(* A `?` or a panic that ends the running function with r. *)
Return(r) ==
    /\ result' = r.status
    /\ diag' = r.error
    /\ pc' = "returned"

(* validate_schemas: let files = visit_dirs(path)?; *)
LintVisit ==
    /\ pc = "main" /\ cmd = "lint"
    /\ LET v == visit_dirs(path) IN
       IF v.status = "ok"
       THEN /\ files' = v.value
            /\ pc' = "lint_parse"
            /\ UNCHANGED <<result, diag>>
       ELSE /\ Return(v)
            /\ UNCHANGED files
    /\ UNCHANGED <<cmd, path, old, new, mutual, old_schemas, new_schemas,
                   idx, exit_code, stderr>>

(* validate_schemas: let _ = parse_schemas(files)?; Ok(()) *)
LintParse ==
    /\ pc = "lint_parse"
    /\ LET s == parse_schemas(files) IN
       IF s.status = "ok" THEN Return(Ok(<<>>)) ELSE Return(s)
    /\ UNCHANGED <<cmd, path, old, new, mutual, files, old_schemas,
                   new_schemas, idx, exit_code, stderr>>

(* compare_schemas: let old_files = visit_dirs(old)?; *)
CompatVisitOld ==
    /\ pc = "main" /\ cmd = "compat"
    /\ LET v == visit_dirs(old) IN
       IF v.status = "ok"
       THEN /\ files' = v.value
            /\ pc' = "parse_old"
            /\ UNCHANGED <<result, diag>>
       ELSE /\ Return(v)
            /\ UNCHANGED files
    /\ UNCHANGED <<cmd, path, old, new, mutual, old_schemas, new_schemas,
                   idx, exit_code, stderr>>

(* compare_schemas: let old_schemas = parse_schemas(old_files)?; *)
CompatParseOld ==
    /\ pc = "parse_old"
    /\ LET s == parse_schemas(files) IN
       IF s.status = "ok"
       THEN /\ old_schemas' = s.value
            /\ pc' = "visit_new"
            /\ UNCHANGED <<result, diag>>
       ELSE /\ Return(s)
            /\ UNCHANGED old_schemas
    /\ UNCHANGED <<cmd, path, old, new, mutual, files, new_schemas, idx,
                   exit_code, stderr>>

(* compare_schemas: let new_files = visit_dirs(new)?; *)
CompatVisitNew ==
    /\ pc = "visit_new"
    /\ LET v == visit_dirs(new) IN
       IF v.status = "ok"
       THEN /\ files' = v.value
            /\ pc' = "parse_new"
            /\ UNCHANGED <<result, diag>>
       ELSE /\ Return(v)
            /\ UNCHANGED files
    /\ UNCHANGED <<cmd, path, old, new, mutual, old_schemas, new_schemas,
                   idx, exit_code, stderr>>

(* compare_schemas: let new_schemas = parse_schemas(new_files)?; *)
CompatParseNew ==
    /\ pc = "parse_new"
    /\ LET s == parse_schemas(files) IN
       IF s.status = "ok"
       THEN /\ new_schemas' = s.value
            /\ idx' = 1
            /\ pc' = "loop"
            /\ UNCHANGED <<result, diag>>
       ELSE /\ Return(s)
            /\ UNCHANGED <<new_schemas, idx>>
    /\ UNCHANGED <<cmd, path, old, new, mutual, files, old_schemas,
                   exit_code, stderr>>

(* Variant: an Err is remembered and the loop goes on to the next schema. *)
CompareNext_keeps_going ==
    /\ pc = "loop"
    /\ idx <= Len(old_schemas)
    /\ LET r == compare_one(old_schemas[idx], old_schemas, new_schemas,
                            mutual) IN
       IF r.status = "ok"
       THEN /\ idx' = idx + 1
            /\ UNCHANGED <<pc, result, diag>>
       ELSE IF r.status = "panic"
       THEN /\ Return(r)
            /\ UNCHANGED idx
       ELSE /\ result' = r.status
            /\ diag' = r.error
            /\ idx' = idx + 1
            /\ pc' = IF idx = Len(old_schemas) THEN "returned" ELSE "loop"
    /\ UNCHANGED <<cmd, path, old, new, mutual, files, old_schemas,
                   new_schemas, exit_code, stderr>>

(* compare_schemas: one iteration of `for schema in old_schemas`. *)
CompareNext ==
    /\ pc = "loop"
    /\ idx <= Len(old_schemas)
    /\ LET r == compare_one(old_schemas[idx], old_schemas, new_schemas,
                            mutual) IN
       IF r.status = "ok"
       THEN /\ idx' = idx + 1
            /\ UNCHANGED <<pc, result, diag>>
       ELSE /\ Return(r)
            /\ UNCHANGED idx
    /\ UNCHANGED <<cmd, path, old, new, mutual, files, old_schemas,
                   new_schemas, exit_code, stderr>>

(* compare_schemas: the loop is over, Ok(()). *)
CompareDone ==
    /\ pc = "loop"
    /\ idx > Len(old_schemas)
    /\ Return(Ok(<<>>))
    /\ UNCHANGED <<cmd, path, old, new, mutual, files, old_schemas,
                   new_schemas, idx, exit_code, stderr>>

(* main: Err is printed in one eprintln! and the process exits 1, Ok exits 0. *)
MainExit ==
    /\ pc = "returned"
    /\ result \in {"ok", "err"}
    /\ exit_code' = IF result = "ok" THEN 0 ELSE 1
    /\ stderr' = IF result = "ok" THEN stderr ELSE Append(stderr, diag)
    /\ pc' = "exit"
    /\ UNCHANGED <<cmd, path, old, new, mutual, files, old_schemas,
                   new_schemas, idx, result, diag>>

(* A panic unwinds out of main: the process aborts with status 101. *)
PanicAbort ==
    /\ pc = "returned"
    /\ result = "panic"
    /\ exit_code' = 101
    /\ stderr' = Append(stderr, diag)
    /\ pc' = "exit"
    /\ UNCHANGED <<cmd, path, old, new, mutual, files, old_schemas,
                   new_schemas, idx, result, diag>>

Next ==
    \/ LintVisit
    \/ LintParse
    \/ CompatVisitOld
    \/ CompatParseOld
    \/ CompatVisitNew
    \/ CompatParseNew
    \/ CompareNext
    \/ CompareDone
    \/ MainExit
    \/ PanicAbort

Spec == Init /\ [][Next]_vars

(***************************************************************************)
(* The run as one function of the arguments agrees with the steps.         *)
(***************************************************************************)
Outcome ==
    IF cmd = "lint" THEN validate_schemas(path)
    ELSE compare_schemas(old, new, mutual)

StepsAgree ==
    /\ pc \in {"returned", "exit"} =>
          /\ result = Outcome.status
          /\ diag = Outcome.error
    /\ pc = "exit" => exit_code = exit_status(Outcome)

(***************************************************************************)
(* Vocabulary of the properties.                                           *)
(***************************************************************************)
Exited == pc = "exit"
(* compat has parsed both document sets and entered the loop. *)
Compared == cmd = "compat" /\ idx >= 1
CompatExited == Exited /\ Compared

OldIdx == 1..Len(old_schemas)
NewIdx == 1..Len(new_schemas)
Named(s) == s.name # NoName
(* old_schemas[i] and new_schemas[j] are named and have the same fullname. *)
Matched(i, j) ==
    /\ Named(old_schemas[i])
    /\ new_schemas[j].name = old_schemas[i].name
(* The fullname of old_schemas[i] is declared in old and absent from new. *)
Removed(i) ==
    /\ Named(old_schemas[i])
    /\ \A j \in NewIdx : new_schemas[j].name # old_schemas[i].name
(* The selected check (one-way or mutual) rejects the matched pair. *)
Rejected(i) ==
    \E j \in NewIdx :
        /\ Matched(i, j)
        /\ check_pair(old_schemas[i], new_schemas[j], old_schemas,
                      new_schemas, mutual) # "Ok"
FailingNames == {i \in OldIdx : Removed(i) \/ Rejected(i)}
(* The loop went past old_schemas[i] without an error. *)
Passed(i) == idx > i
(* The loop stopped at old_schemas[i] with an Err. *)
Failed(i) == idx = i /\ result = "err"
(* A diagnostic about old_schemas[i] was printed. *)
Reported(i) ==
    \E k \in 1..Len(stderr) :
        /\ stderr[k].name = old_schemas[i].name
        /\ stderr[k].reason \in
              {"SchemaRemoved", "MissingField", "TypeMismatch"}

(* C1: for two parsed document sets, compat exits 0 if and only if every
   named schema of old has a schema of the same fullname in new and every
   matched pair passes the selected check; in every other case it exits 1. *)
C1_ExitZeroIffAllMatchedPass ==
    CompatExited =>
        /\ exit_code \in {0, 1}
        /\ exit_code = 0 <=>
              \A i \in OldIdx :
                  Named(old_schemas[i]) => ~Removed(i) /\ ~Rejected(i)

(* C2 as stated: every fullname declared in old and absent from new is
   answered with SchemaRemoved for that fullname, whatever the other pairs
   of the two sets are (read on the runs that return a result). *)
C2_RemovedAlwaysReported ==
    (CompatExited /\ result # "panic") =>
        \A i \in OldIdx :
            Removed(i) =>
                /\ result = "err"
                /\ diag = Error("SchemaRemoved", old_schemas[i].name)

(* C2 amended: a fullname declared in old and absent from new never lets
   compat exit 0, for both values of mutual; the result is SchemaRemoved for
   that fullname when the loop stops at that schema and every schema of the
   new set has a name, and it is the earlier failure when a schema earlier in
   the old set fails first. *)
C2_RemovedFailsAndIsReportedWhenFirst ==
    CompatExited =>
        \A i \in OldIdx :
            Removed(i) =>
                /\ exit_code # 0
                /\ idx <= i
                /\ (idx = i /\ \A j \in NewIdx : Named(new_schemas[j])) =>
                      /\ result = "err"
                      /\ diag = Error("SchemaRemoved", old_schemas[i].name)
                      /\ stderr = <<diag>>

C2_Witness ==
    /\ CompatExited
    /\ mutual
    /\ \E i \in OldIdx :
          /\ i > 1
          /\ Removed(i)
          /\ Failed(i)
          /\ diag = Error("SchemaRemoved", old_schemas[i].name)

(* C3 as stated: when two or more old names are incompatible with or removed
   from the new set, one run reports every one of them (read on the runs that
   return a result). *)
C3_AllFailuresReported ==
    (CompatExited /\ result # "panic" /\ Cardinality(FailingNames) >= 2) =>
        \A i \in FailingNames : Reported(i)

(* C3 amended: the comparison stops at the first old schema that fails; a
   run prints at most one diagnostic, and when it returns an error that
   diagnostic is about the schema the loop stopped at: every failing name
   before it is impossible, and no failing name after it is reported. *)
C3_OnlyFirstFailureReported ==
    CompatExited =>
        /\ Len(stderr) <= 1
        /\ result = "err" =>
              /\ stderr = <<diag>>
              /\ idx \in OldIdx
              /\ diag.name = old_schemas[idx].name
              /\ \A i \in FailingNames : i >= idx /\ (Reported(i) <=> i = idx)
        /\ result = "ok" => FailingNames = {} /\ stderr = <<>>

C3_Witness ==
    /\ CompatExited
    /\ Cardinality(FailingNames) >= 2
    /\ result = "err"
    /\ \E i \in FailingNames : ~Reported(i)

(* C4: every failure of lint or compat is returned as an error result and
   never as a crash of the process. *)
C4_NeverPanics == result # "panic" /\ exit_code # 101

(***************************************************************************)
(* Changes between a matched pair of records.                              *)
(***************************************************************************)
FieldIdx(rec) == 1..Len(rec.fields)
HasField(rec, n) == field_named(rec, n) # {}
TheField(rec, n) == rec.fields[CHOOSE k \in field_named(rec, n) : TRUE]
(* A field type that means the same in both sets: a primitive, or a
   Reference to a record of primitives that is the same in old and new. *)
SameType(t) ==
    \/ t \in Prims
    \/ /\ \E k \in OldIdx : old_schemas[k].name = t
       /\ \E k \in NewIdx : new_schemas[k].name = t
       /\ resolve(old_schemas, t) = resolve(new_schemas, t)
       /\ references(resolve(old_schemas, t)) = {}
(* Field f of o is kept unchanged in n. *)
Kept(o, n, f) ==
    /\ HasField(n, f.name)
    /\ TheField(n, f.name) = f
    /\ SameType(f.type)
(* n drops a field of o that has no default. *)
DropsRequiredField(o, n) ==
    \E k \in FieldIdx(o) : ~o.fields[k].default /\ ~HasField(n, o.fields[k].name)
(* n changes the type of a field of o from type a to type b. *)
Retypes(o, n, a, b) ==
    \E k \in FieldIdx(o) :
        /\ o.fields[k].type = a
        /\ HasField(n, o.fields[k].name)
        /\ TheField(n, o.fields[k].name).type = b
(* n differs from o only in fields retyped from a to b. *)
OnlyRetypes(o, n, a, b) ==
    /\ Retypes(o, n, a, b)
    /\ Len(o.fields) = Len(n.fields)
    /\ \A k \in FieldIdx(o) :
          \/ o.fields[k] = n.fields[k] /\ SameType(o.fields[k].type)
          \/ /\ o.fields[k].type = a
             /\ n.fields[k] = [o.fields[k] EXCEPT !.type = b]
(* n keeps every field of o and adds at least one field, each added field
   carrying a default. *)
AddsDefaulted(o, n) ==
    /\ \A k \in FieldIdx(o) : Kept(o, n, o.fields[k])
    /\ Len(n.fields) > Len(o.fields)
    /\ \A k \in FieldIdx(n) :
          HasField(o, n.fields[k].name) \/ n.fields[k].default
(* The loop has dealt with old_schemas[i]: it passed or failed there. *)
Checked(i) == Passed(i) \/ Failed(i)

(* C5 as stated: a record field without default that new drops and old
   still declares makes compat fail with MissingField, for both values of
   mutual (read on the runs that return a result, whatever reason the
   failure reports). *)
C5_DroppedFieldFailsBothModes ==
    (CompatExited /\ result # "panic") =>
        \A i \in OldIdx : \A j \in NewIdx :
            (Matched(i, j) /\ DropsRequiredField(old_schemas[i], new_schemas[j]))
                => result = "err"

(* C5 amended: dropping from new a record field without default that old
   still declares makes compat fail when mutual is true, with MissingField
   when the fields new keeps are unchanged; when mutual is false the old
   schema is the writer and the dropped field is ignored, so such a pair
   passes. *)
C5_DroppedFieldFailsWhenMutual ==
    CompatExited =>
        \A i \in OldIdx : \A j \in NewIdx :
            (Matched(i, j) /\ DropsRequiredField(old_schemas[i], new_schemas[j]))
                => LET o == old_schemas[i]
                       n == new_schemas[j]
                       rest == \A k \in FieldIdx(n) : Kept(n, o, n.fields[k])
                   IN /\ mutual => exit_code # 0 /\ ~Passed(i)
                      /\ (mutual /\ Failed(i) /\ rest) =>
                            diag = Error("MissingField", o.name)
                      /\ (~mutual /\ Checked(i) /\ rest) => Passed(i)

C5_Witness ==
    /\ CompatExited
    /\ mutual
    /\ \E i \in OldIdx : \E j \in NewIdx :
          /\ Matched(i, j)
          /\ DropsRequiredField(old_schemas[i], new_schemas[j])
          /\ Failed(i)
          /\ diag = Error("MissingField", old_schemas[i].name)

(* C6: with mutual false a record whose field changes from int in old to
   long in new passes and one whose field changes from long to int fails;
   with mutual true both changes fail. *)
C6_OneWayDirection ==
    CompatExited =>
        \A i \in OldIdx : \A j \in NewIdx :
            (Matched(i, j) /\ Checked(i)) =>
                LET o == old_schemas[i]
                    n == new_schemas[j]
                    mismatch == /\ Failed(i)
                                /\ diag = Error("TypeMismatch", o.name)
                                /\ exit_code = 1
                IN /\ (~mutual /\ OnlyRetypes(o, n, "int", "long")) => Passed(i)
                   /\ (~mutual /\ Retypes(o, n, "long", "int")) => Failed(i)
                   /\ (~mutual /\ OnlyRetypes(o, n, "long", "int")) => mismatch
                   /\ (mutual /\ Retypes(o, n, "int", "long")) => Failed(i)
                   /\ (mutual /\ Retypes(o, n, "long", "int")) => Failed(i)
                   /\ (mutual /\ OnlyRetypes(o, n, "int", "long")) => mismatch
                   /\ (mutual /\ OnlyRetypes(o, n, "long", "int")) => mismatch

C6_Witness ==
    /\ CompatExited
    /\ ~mutual
    /\ exit_code = 0
    /\ \E i \in OldIdx : \E j \in NewIdx :
          /\ Matched(i, j)
          /\ OnlyRetypes(old_schemas[i], new_schemas[j], "int", "long")

(* C7: a new record that keeps every field of the old record unchanged and
   adds fields that all carry a default passes with mutual true and with
   mutual false; a new record that changes a field from int to string fails
   in both modes, whatever defaulted fields it adds. *)
C7_DefaultedAdditionsPass ==
    CompatExited =>
        \A i \in OldIdx : \A j \in NewIdx :
            (Matched(i, j) /\ Checked(i)) =>
                LET o == old_schemas[i]
                    n == new_schemas[j]
                IN /\ AddsDefaulted(o, n) => Passed(i)
                   /\ Retypes(o, n, "int", "string") =>
                         Failed(i) /\ exit_code = 1

C7_Witness ==
    /\ CompatExited
    /\ mutual
    /\ exit_code = 0
    /\ \E i \in OldIdx : \E j \in NewIdx :
          /\ Matched(i, j)
          /\ AddsDefaulted(old_schemas[i], new_schemas[j])
          /\ Len(old_schemas[i].fields) > 0

(***************************************************************************)
(* Variations of the arguments of a run.                                   *)
(***************************************************************************)
ExtraDocs ==
    {X1, Record(Extra, <<>>),
     Record(Extra, <<Field("myOtherField", "string", TRUE)>>)}
(* The directory with one more file, extra.avsc, listed after p entries. *)
WithExtra(dir, p, x) ==
    [dir EXCEPT !.entries =
        SubSeq(@, 1, p) \o <<File("extra", "avsc", TRUE, x)>>
                        \o SubSeq(@, p + 1, Len(@))]
(* The orders in which read_dir may enumerate n entries. *)
Orders(n) == {f \in [1..n -> 1..n] : \A a, b \in 1..n : f[a] = f[b] => a = b}
Reordered(dir, f) ==
    [dir EXCEPT !.entries = [k \in 1..Len(@) |-> @[f[k]]]]
Range(seq) == {seq[k] : k \in 1..Len(seq)}

(* C8: adding to new a well-formed named schema whose fullname is in
   neither set leaves the verdict of compat (pass or fail) unchanged, for
   both values of mutual. *)
C8_NewOnlyNamesIgnored ==
    (Exited /\ cmd = "compat") =>
        \A x \in ExtraDocs : \A p \in 0..Len(new.entries) :
            (compare_schemas(old, WithExtra(new, p, x), mutual).status = "ok")
                <=> exit_code = 0

C8_Witness ==
    /\ CompatExited
    /\ exit_code = 0
    /\ old_schemas # <<>>
    /\ \E j \in NewIdx :
          /\ Named(new_schemas[j])
          /\ \A i \in OldIdx : old_schemas[i].name # new_schemas[j].name

(***************************************************************************)
(* The document set of a path, told without the traversal: the .avsc files *)
(* below it that are under no directory named .git, each with the          *)
(* directory it is in.                                                     *)
(***************************************************************************)
RECURSIVE AvscOutsideGit(_, _)
AvscOutsideGit(p, at) ==
    IF ~is_dir(p)
    THEN IF extension(p) = "avsc" THEN {[at |-> at, file |-> p]} ELSE {}
    ELSE IF p.stem = ".git" THEN {}
    ELSE UNION {AvscOutsideGit(e, Append(at, p.stem)) : e \in Range(p.entries)}
(* Every directory of the path outside .git can be listed. *)
RECURSIVE Listable(_)
Listable(p) ==
    \/ ~is_dir(p)
    \/ p.stem = ".git"
    \/ p.readable /\ \A e \in Range(p.entries) : Listable(e)
AllReadable(S) == \A x \in S : x.file.readable
(* The documents parse together as one document set. *)
ParseTogether(S) ==
    /\ AllReadable(S)
    /\ \A x \in S : x.file.content.kind # "malformed"
    /\ \A x, y \in S :
          (x # y /\ Named(x.file.content))
              => x.file.content.name # y.file.content.name
    /\ \A x \in S :
          references(x.file.content) \subseteq {y.file.content.name : y \in S}
(* The path without its files of another extension than avsc. *)
RECURSIVE OnlyAvsc(_)
OnlyAvsc(p) ==
    IF ~is_dir(p) THEN p
    ELSE [p EXCEPT !.entries =
            LET kept == SelectSeq(@, LAMBDA e : is_dir(e) \/ extension(e) = "avsc")
            IN [k \in 1..Len(kept) |-> OnlyAvsc(kept[k])]]

(* C9 as stated: lint exits 0 if and only if the avsc files found under the
   path outside any .git directory all parse together as one document
   set. *)
C9_LintIffDocumentsParse ==
    (Exited /\ cmd = "lint") =>
        (exit_code = 0 <=> ParseTogether(AvscOutsideGit(path, <<>>)))

(* C9 amended: lint exits 0 if and only if every directory under the path
   outside .git can be listed and the avsc files outside .git can all be
   read and parse together as one document set; a directory that cannot be
   listed, or a document that fails to parse among readable ones, makes the
   run exit 1 instead of being skipped (an unreadable avsc file aborts it,
   C4); files of another extension never change the outcome. *)
C9_LintIffListableAndDocumentsParse ==
    (Exited /\ cmd = "lint") =>
        LET docs == AvscOutsideGit(path, <<>>) IN
        /\ exit_code = 0 <=> Listable(path) /\ ParseTogether(docs)
        /\ exit_code = 1 <=>
              \/ ~Listable(path)
              \/ AllReadable(docs) /\ ~ParseTogether(docs)
        /\ exit_code = 101 <=> Listable(path) /\ ~AllReadable(docs)
        /\ exit_status(validate_schemas(OnlyAvsc(path))) = exit_code

C9_Witness ==
    /\ Exited /\ cmd = "lint"
    /\ exit_code = 1
    /\ Listable(path)
    /\ AllReadable(AvscOutsideGit(path, <<>>))
    /\ \E x \in AvscOutsideGit(path, <<>>) : x.file.content.kind = "malformed"
    /\ \E e \in Range(path.entries) :
          \/ ~is_dir(e) /\ extension(e) # "avsc"
          \/ e.stem = ".git" /\ e.entries # <<>>

(* C10: the verdicts of lint and compat (pass or fail) are the same for
   every order in which the entries of the directories are enumerated. *)
C10_OrderIndependent ==
    Exited =>
        IF cmd = "lint"
        THEN \A f \in Orders(Len(path.entries)) :
                (validate_schemas(Reordered(path, f)).status = "ok")
                    <=> exit_code = 0
        ELSE \A f \in Orders(Len(old.entries)) :
             \A g \in Orders(Len(new.entries)) :
                (compare_schemas(Reordered(old, f), Reordered(new, g),
                                 mutual).status = "ok")
                    <=> exit_code = 0

====
